---------------------------- MODULE Spec2Model ----------------------------
(***************************************************************************)
(* Deal or No Deal: the Board (src/js/Board.js), the Banker                *)
(* (src/js/Banker.js) and the Game controller (class Game, which lives in  *)
(* src/js/Animator.js from line 579 on).                                   *)
(*                                                                         *)
(* Money is kept in pence (the table holds 0.01), recorded offers in whole *)
(* pounds (Banker.calculateOffer ends in Math.round).  The banker's        *)
(* arithmetic is done exactly, on naturals of arbitrary size written as    *)
(* little-endian sequences of base-10000 digits, so that no product        *)
(* overflows; a rational is a numerator with a sequence of small divisors. *)
(***************************************************************************)
EXTENDS Integers, Sequences, FiniteSets, Bags, TLC

-----------------------------------------------------------------------------
(* Arbitrary-size naturals *)

Base == 100 * 100

RECURSIVE FromInt(_)
FromInt(i) == IF i = 0 THEN <<>> ELSE <<i % Base>> \o FromInt(i \div Base)

RECURSIVE ToInt(_)
ToInt(a) == IF a = <<>> THEN 0 ELSE Head(a) + Base * ToInt(Tail(a))

RECURSIVE AddC(_, _, _)
AddC(a, b, c) ==
    IF a = <<>> /\ b = <<>> THEN (IF c = 0 THEN <<>> ELSE <<c>>)
    ELSE LET x == IF a = <<>> THEN 0 ELSE Head(a)
             y == IF b = <<>> THEN 0 ELSE Head(b)
             s == x + y + c
         IN  <<s % Base>> \o AddC(IF a = <<>> THEN <<>> ELSE Tail(a),
                                  IF b = <<>> THEN <<>> ELSE Tail(b),
                                  s \div Base)

Add(a, b) == AddC(a, b, 0)

RECURSIVE MulC(_, _, _)
MulC(a, m, c) ==
    IF a = <<>> THEN FromInt(c)
    ELSE LET s == Head(a) * m + c
         IN  <<s % Base>> \o MulC(Tail(a), m, s \div Base)

\* a * m for a small natural m (m <= Base)
MulSmall(a, m) == IF m = 0 THEN <<>> ELSE MulC(a, m, 0)

RECURSIVE Mul(_, _)
Mul(a, b) ==
    IF a = <<>> \/ b = <<>> THEN <<>>
    ELSE LET rest == Mul(Tail(a), b)
         IN  Add(MulSmall(b, Head(a)), IF rest = <<>> THEN <<>> ELSE <<0>> \o rest)

RECURSIVE MulAll(_, _)
MulAll(a, ms) == IF ms = <<>> THEN a ELSE MulAll(MulSmall(a, Head(ms)), Tail(ms))

RECURSIVE Strip(_)
Strip(a) == IF a # <<>> /\ a[Len(a)] = 0 THEN Strip(SubSeq(a, 1, Len(a) - 1)) ELSE a

\* [q, r] of the digits a[1..k] (most significant last) divided by small m
RECURSIVE DivC(_, _, _)
DivC(a, m, k) ==
    IF k > Len(a) THEN [q |-> <<>>, r |-> 0]
    ELSE LET hi  == DivC(a, m, k + 1)
             cur == hi.r * Base + a[k]
         IN  [q |-> <<cur \div m>> \o hi.q, r |-> cur % m]

\* floor(a / m) for a small natural m (0 < m <= Base)
DivSmall(a, m) == Strip(DivC(a, m, 1).q)

RECURSIVE DivAll(_, _)
DivAll(a, ms) == IF ms = <<>> THEN a ELSE DivAll(DivSmall(a, Head(ms)), Tail(ms))

RECURSIVE CmpFrom(_, _, _)
CmpFrom(a, b, k) ==
    IF k = 0 THEN 0
    ELSE IF a[k] < b[k] THEN -1
    ELSE IF a[k] > b[k] THEN 1
    ELSE CmpFrom(a, b, k - 1)

\* -1, 0, 1 as a < b, a = b, a > b
Cmp(a, b) ==
    IF Len(a) < Len(b) THEN -1
    ELSE IF Len(a) > Len(b) THEN 1
    ELSE CmpFrom(a, b, Len(a))

Less(a, b) == Cmp(a, b) = -1
Leq(a, b)  == Cmp(a, b) <= 0

(* A non-negative rational: numerator n, divided by every number of ds *)
Q(n, ds) == [n |-> n, ds |-> ds]
QLess(x, y) == Less(MulAll(x.n, y.ds), MulAll(y.n, x.ds))
QLeq(x, y)  == Leq(MulAll(x.n, y.ds), MulAll(y.n, x.ds))
QMax(x, y)  == IF QLess(x, y) THEN y ELSE x
QMin(x, y)  == IF QLess(y, x) THEN y ELSE x
QInt(i)     == Q(FromInt(i), <<>>)
QIsZero(x)  == x.n = <<>>
\* Math.round of a non-negative rational: floor(x + 1/2)
MathRound(x) ==
    ToInt(DivAll(Add(MulSmall(x.n, 2), MulAll(<<1>>, x.ds)), <<2>> \o x.ds))

-----------------------------------------------------------------------------
(* Board.values, in pence *)

Values == << 1, 100, 500, 1000, 2500, 5000, 7500, 10000, 20000, 30000,
             40000, 50000, 75000, 100000, 500000, 1000000, 2500000, 5000000,
             7500000, 10000000, 20000000, 30000000, 40000000, 50000000,
             75000000, 100000000 >>

NumCases == 26

Cases == 1..NumCases

-----------------------------------------------------------------------------
(* Banker: the offer computation.  Values are sequences of pence, offers   *)
(* whole pounds, multipliers hundredths.                                   *)

\* the sums are taken by halves, which keeps the recursion shallow
RECURSIVE SumRange(_, _, _)
SumRange(vs, lo, hi) ==
    IF lo > hi THEN <<>>
    ELSE IF lo = hi THEN FromInt(vs[lo])
    ELSE LET mid == (lo + hi) \div 2
         IN  Add(SumRange(vs, lo, mid), SumRange(vs, mid + 1, hi))

SumSeq(vs) == SumRange(vs, 1, Len(vs))

RECURSIVE SumSquaresRange(_, _, _)
SumSquaresRange(vs, lo, hi) ==
    IF lo > hi THEN <<>>
    ELSE IF lo = hi THEN Mul(FromInt(vs[lo]), FromInt(vs[lo]))
    ELSE LET mid == (lo + hi) \div 2
         IN  Add(SumSquaresRange(vs, lo, mid), SumSquaresRange(vs, mid + 1, hi))

SumSquares(vs) == SumSquaresRange(vs, 1, Len(vs))

RECURSIVE SumInts(_)
SumInts(xs) == IF xs = <<>> THEN 0 ELSE Head(xs) + SumInts(Tail(xs))

MinSeq(vs) == CHOOSE m \in {vs[i] : i \in 1..Len(vs)} : \A i \in 1..Len(vs) : m <= vs[i]

\* a filter that lets every value through
unfilteredValues(remainingValues) == remainingValues

\* the filter of calculateOffer: typeof number, not NaN, > 0
validValues(remainingValues) == SelectSeq(remainingValues, LAMBDA v : v > 0)

\* in pounds; 0 for no values
calculateExpectedValue(values) ==
    IF Len(values) = 0 THEN QInt(0) ELSE Q(SumSeq(values), <<100, Len(values)>>)

\* a round multiplier that looks at the round first
roundFirstMultiplier(round, remainingCases) ==
    IF round \in 1..6 THEN 15 + 10 * round
    ELSE IF remainingCases <= 2 THEN 95
    ELSE IF remainingCases <= 3 THEN 90
    ELSE IF remainingCases <= 5 THEN 85
    ELSE IF remainingCases <= 10 THEN 80
    ELSE 70

\* a round multiplier whose ramp falls with the round
fallingMultiplier(round, remainingCases) ==
    IF remainingCases <= 2 THEN 95
    ELSE IF remainingCases <= 3 THEN 90
    ELSE IF remainingCases <= 5 THEN 85
    ELSE IF remainingCases <= 10 THEN 80
    ELSE IF round \in 1..6 THEN 85 - 10 * round
    ELSE 70

getRoundMultiplier(round, remainingCases) ==
    IF remainingCases <= 2 THEN 95
    ELSE IF remainingCases <= 3 THEN 90
    ELSE IF remainingCases <= 5 THEN 85
    ELSE IF remainingCases <= 10 THEN 80
    ELSE IF round = 1 THEN 25
    ELSE IF round = 2 THEN 35
    ELSE IF round = 3 THEN 45
    ELSE IF round = 4 THEN 55
    ELSE IF round = 5 THEN 65
    ELSE IF round = 6 THEN 75
    ELSE 70

\* whether the three most recent offers average more than 60% of the expected
\* value; asked only once more than three offers were made
recentPressure(remainingValues, offers) ==
    /\ Len(offers) > 3
    /\ LET recentOffers   == SubSeq(offers, Len(offers) - 2, Len(offers))
           avgRecentOffer == Q(FromInt(SumInts(recentOffers)), <<3>>)
           ev             == calculateExpectedValue(remainingValues)
       IN  QLess(Q(MulSmall(ev.n, 6), ev.ds \o <<10>>), avgRecentOffer)

\* the three factors of the psychology multiplier, each in hundredths
getPsychologyMultiplier(remainingValues, offers) ==
    LET highValues  == Len(SelectSeq(remainingValues, LAMBDA v : v >= 10000000))
        lowValues   == Len(SelectSeq(remainingValues, LAMBDA v : v < 100000))
        totalValues == Len(remainingValues)
    IN  << IF recentPressure(remainingValues, offers) THEN 110 ELSE 100,
           IF 10 * highValues > 7 * totalValues THEN 105
           ELSE IF 10 * highValues > 5 * totalValues THEN 102
           ELSE IF 10 * lowValues > 6 * totalValues THEN 115
           ELSE 100,
           IF totalValues <= 3 /\ highValues >= 1 THEN 110 ELSE 100 >>

\* a risk multiplier from the sample standard deviation (n - 1 in the variance)
sampleRiskMultiplier(remainingValues) ==
    LET n   == Len(remainingValues)
        s   == SumSeq(remainingValues)
        s2  == Mul(s, s)
        nq4 == MulAll(SumSquares(remainingValues), <<n, n, 4>>)
    IN  IF Less(MulSmall(s2, 20 * n - 16), nq4) THEN 85
        ELSE IF Less(MulSmall(s2, 13 * n - 9), nq4) THEN 90
        ELSE IF Less(MulSmall(s2, 8 * n - 4), nq4) THEN 95
        ELSE 100

\* coefficient of variation cv = sd / mean; cv > t  iff  n * sum(x^2) > (1 + t^2) * sum(x)^2,
\* compared here with both sides times 4
getRiskMultiplier(remainingValues) ==
    LET s   == SumSeq(remainingValues)
        s2  == Mul(s, s)
        nq4 == MulAll(SumSquares(remainingValues), <<Len(remainingValues), 4>>)
    IN  IF Less(MulSmall(s2, 20), nq4) THEN 85
        ELSE IF Less(MulSmall(s2, 13), nq4) THEN 90
        ELSE IF Less(MulSmall(s2, 8), nq4) THEN 95
        ELSE 100

\* Math.round(offer / g) * g
roundTo(offer, g) == MathRound(Q(offer.n, offer.ds \o <<g>>)) * g

\* a rounding that cuts the amount down to a multiple of the granularity
truncatedOffer(offer) ==
    LET g == IF QLess(offer, QInt(100)) THEN 5
             ELSE IF QLess(offer, QInt(1000)) THEN 10
             ELSE IF QLess(offer, QInt(10000)) THEN 100
             ELSE IF QLess(offer, QInt(100000)) THEN 500
             ELSE IF QLess(offer, QInt(500000)) THEN 1000
             ELSE 5000
    IN  ToInt(DivAll(offer.n, offer.ds \o <<g>>)) * g

roundOffer(offer) ==
    IF QLess(offer, QInt(100)) THEN roundTo(offer, 5)
    ELSE IF QLess(offer, QInt(1000)) THEN roundTo(offer, 10)
    ELSE IF QLess(offer, QInt(10000)) THEN roundTo(offer, 100)
    ELSE IF QLess(offer, QInt(100000)) THEN roundTo(offer, 500)
    ELSE IF QLess(offer, QInt(500000)) THEN roundTo(offer, 1000)
    ELSE roundTo(offer, 5000)

\* the cap of calculateOffer: 95% of the expected value for three values or
\* fewer (counted on the unfiltered argument), 85% otherwise
maxOffer(remainingValues) ==
    LET ev == calculateExpectedValue(validValues(remainingValues))
    IN  Q(MulSmall(ev.n, IF Len(remainingValues) <= 3 THEN 95 ELSE 85), ev.ds \o <<100>>)

\* the raw product expectedValue * roundMultiplier * psychologyMultiplier * riskMultiplier,
\* raised to 85% of the expected value when three values or fewer remain
flooredOffer(values, round, offers) ==
    LET ev    == calculateExpectedValue(values)
        psy   == getPsychologyMultiplier(values, offers)
        mults == <<getRoundMultiplier(round, Len(values)), psy[1], psy[2], psy[3],
                   getRiskMultiplier(values)>>
        offer == Q(MulAll(ev.n, mults), ev.ds \o <<100, 100, 100, 100, 100>>)
        minCompetitiveOffer == Q(MulSmall(ev.n, 85), ev.ds \o <<100>>)
    IN  IF Len(values) <= 3 THEN QMax(offer, minCompetitiveOffer) ELSE offer

\* a calculateOffer without the progression step
unprogressed(offer, round, offers) == QInt(offer)

\* the offer after the progression step: at least 105% of the last offer
progressed(offer, round, offers) ==
    IF Len(offers) > 0 /\ round > 1
    THEN QMax(QInt(offer), Q(FromInt(offers[Len(offers)] * 105), <<100>>))
    ELSE QInt(offer)

\* the random variation; randomFactor in thousandths stands for 0.95 + Math.random() * 0.1
jitteredOffer(floored, randomFactor) == Q(MulSmall(floored.n, randomFactor), floored.ds \o <<1000>>)

\* the progression step, then the cap
cappedOffer(rounded, remainingValues, round, offers) ==
    QMin(progressed(rounded, round, offers), maxOffer(remainingValues))

\* the final safety check: a conservative fallback for an offer of 0
safeOffer(capped, values) ==
    IF QIsZero(capped) THEN QMax(QInt(1), Q(FromInt(MinSeq(values)), <<100, 10>>)) ELSE capped

\* the amount calculateOffer records and returns
calculateOffer(remainingValues, round, offers, randomFactor) ==
    IF Len(remainingValues) = 0 THEN 0
    ELSE IF Len(validValues(remainingValues)) = 0 THEN 1000
    ELSE MathRound(safeOffer(cappedOffer(roundOffer(jitteredOffer(
            flooredOffer(validValues(remainingValues), round, offers), randomFactor)),
            remainingValues, round, offers), validValues(remainingValues)))

\* calculateOffer returns early, recording nothing, for no (valid) values
recordsOffer(remainingValues) == Len(validValues(remainingValues)) > 0


-----------------------------------------------------------------------------
(* State *)

VARIABLES
    board,    \* Board: isSelected, isEliminated (the flags of the briefcases, as
              \* sets of case numbers), value (case number -> pence),
              \* selectedCase (0 for null), eliminatedCases
    banker,   \* Banker: offers, currentOffer, offerNumber
    game,     \* Game: gameState, round, casesToEliminate, eliminatedThisRound,
              \* currentEliminatedCase
    tasks,    \* bag of the async calls suspended at an await, the pending
              \* timers and the open switch dialogs
    outcome,  \* what the game-over modal or the final reveal shows
    sim,      \* the scenario Banker.simulateOffers last priced
    strays    \* intents that got past the gating of the UI so far

vars == <<board, banker, game, tasks, outcome, sim, strays>>

(* Bounds of the model *)
MaxStrays   == 1   \* intents that get past the gating of the UI
MaxRound    == 7   \* no "No Deal" is taken up beyond this round
MaxOffers   == 6   \* no offer is made beyond this many
NumShuffles == 2   \* sequences of Math.random() draws the shuffle is run on
MaxSim      == 2   \* scenarios in a call of simulateOffers
SimStride   == 8   \* the scenarios start at every SimStride-th value of the table
SimMaxLen   == 4   \* values in a scenario
SimJitters  == 2   \* draws of Math.random() for the random factor of a simulated offer
NumJitters  == 1   \* draws of Math.random() for the random factor of an offer in a game

Null == [caseNumber |-> 0, value |-> 0]

NoOutcome == [kind |-> "none", finalAmount |-> 0, caseValue |-> 0, switched |-> FALSE]

\* op: the await the call is suspended at; c, v: number and value of the briefcase
\* the call is about; o, ov: those of the player's briefcase; sw: the switch choice
Task(op, c, v, o, ov, sw) == [op |-> op, c |-> c, v |-> v, o |-> o, ov |-> ov, sw |-> sw]

Plain(op) == Task(op, 0, 0, 0, 0, FALSE)

Spawn(bag, t)   == bag (+) SetToBag({t})
Retire(bag, t)  == bag (-) SetToBag({t})
Become(bag, t, u) == Retire(bag, t) (+) SetToBag({u})
InFlight(t)     == BagIn(t, tasks)

-----------------------------------------------------------------------------
(* Board *)

\* a shuffle that copies instead of swapping
Overwrite(f, a, b) == [f EXCEPT ![a] = f[b]]

\* [array[i], array[j]] = [array[j], array[i]]
Swap(f, a, b) == [f EXCEPT ![a] = f[b], ![b] = f[a]]

\* the draw Math.floor(Math.random() * (i + 1)) of shuffle d at index i (0-based)
Draw(d, i) ==
    IF d = 1 THEN i
    ELSE IF d = 2 THEN (IF 2 * i >= NumCases THEN (NumCases - 1 - i) % (i + 1) ELSE i)
    ELSE (i * d) % (i + 1)

\* the Fisher-Yates loop of shuffleValues, from index i down to 1
RECURSIVE FisherYates(_, _, _)
FisherYates(shuffledValues, i, d) ==
    IF i <= 0 THEN shuffledValues
    ELSE FisherYates(Swap(shuffledValues, i + 1, Draw(d, i) + 1), i - 1, d)

\* a check that lets any table through
tableAlwaysFits(values) == TRUE

\* the check of shuffleValues: as many values as briefcases
tableFits(values) == Len(values) = NumCases

\* the shuffled values assigned to the briefcases; a briefcase left without
\* one gets the fallback value of 1 pound
shuffleValues(values, d) ==
    LET shuffledValues == FisherYates(values, Len(values) - 1, d)
    IN  [n \in Cases |-> IF n \in DOMAIN shuffledValues THEN shuffledValues[n] ELSE 100]

\* setupBriefcases and the cleared indexes: the Board before shuffleValues ran
setupBriefcases(values) ==
    [isSelected |-> {}, isEliminated |-> {}, value |-> [n \in Cases |-> 0],
     selectedCase |-> 0, eliminatedCases |-> {}, values |-> values]

\* init and reset on a table of values that fits
setupBoard(values, d) ==
    [setupBriefcases(values) EXCEPT !.value = shuffleValues(values, d)]

\* the Board of the constructor, with the table of values it is written with
NewBoard(d) == setupBoard(Values, d)

getRemainingCasesCount == NumCases - Cardinality(board.isEliminated)

\* not selected and not eliminated
getAvailableCases == Cases \ (board.isSelected \cup board.isEliminated)

\* a test that lets the player's briefcase through
isCaseNotEliminated(n) == n \in Cases \ board.isEliminated

isCaseAvailable(n) == n \in getAvailableCases

RECURSIVE SeqOfSet(_)
SeqOfSet(S) ==
    IF S = {} THEN <<>>
    ELSE LET m == CHOOSE x \in S : \A y \in S : x <= y
         IN  <<m>> \o SeqOfSet(S \ {m})

\* the values of the briefcases of S, in briefcase order
valuesOf(S) ==
    LET ns == SeqOfSet(S)
    IN  [i \in 1..Len(ns) |-> board.value[ns[i]]]

\* values of the briefcases neither eliminated nor the player's
getInPlayValues == valuesOf(Cases \ (board.isEliminated \cup board.isSelected))

\* values of the briefcases not eliminated, in briefcase order (the held one included)
getRemainingValues ==
    LET ns == SeqOfSet(Cases \ board.isEliminated)
    IN  [i \in 1..Len(ns) |-> board.value[ns[i]]]

\* null (0) before a briefcase was selected
getSelectedCaseValue ==
    IF board.selectedCase = 0 THEN 0 ELSE board.value[board.selectedCase]

\* briefcases.find(b => b.isSelected): the first one flagged, 0 for undefined
getChosenCase ==
    IF board.isSelected = {} THEN 0
    ELSE CHOOSE n \in board.isSelected : \A m \in board.isSelected : n <= m

selectBriefcase(b, n) == [b EXCEPT !.isSelected = @ \cup {n}, !.selectedCase = n]

\* an elimination that keeps only the briefcase opened last flagged
eliminateOnlyLast(b, n) ==
    [b EXCEPT !.isEliminated = {n}, !.eliminatedCases = {n}]

\* an elimination that also takes the flag off the player's briefcase
eliminateAndRelease(b, n) ==
    [b EXCEPT !.isEliminated = @ \cup {n}, !.eliminatedCases = @ \cup {n}, !.isSelected = {}]

eliminateBriefcase(b, n) ==
    [b EXCEPT !.isEliminated = @ \cup {n}, !.eliminatedCases = @ \cup {n}]

\* deselects the first briefcase flagged and flags the new one; selectedCase is not touched
switchPlayerCase(b, newCaseNumber) ==
    LET currentSelected == IF b.isSelected = {} THEN {}
                           ELSE {CHOOSE n \in b.isSelected : \A m \in b.isSelected : n <= m}
    IN  [b EXCEPT !.isSelected = (@ \ currentSelected) \cup {newCaseNumber}]


-----------------------------------------------------------------------------
(* Banker *)

\* 'offer / expectedValue > tenths / 10', the expected value taken over the
\* values as passed
ratioAbove(offer, remainingValues, tenths) ==
    LET expectedValue == calculateExpectedValue(remainingValues)
    IN  QLess(Q(MulSmall(expectedValue.n, tenths), expectedValue.ds \o <<10>>), QInt(offer))

\* a category that takes the pressure tone only after round 5
lateCategory(offer, remainingValues, round) ==
    IF Len(remainingValues) <= 2 THEN "final"
    ELSE IF round > 5 THEN "pressure"
    ELSE IF ratioAbove(offer, remainingValues, 7) THEN "generous"
    ELSE IF ratioAbove(offer, remainingValues, 4) THEN "fair"
    ELSE "low"

\* the category of getBankerMessage
messageCategory(offer, remainingValues, round) ==
    IF Len(remainingValues) <= 2 THEN "final"
    ELSE IF round > 4 THEN "pressure"
    ELSE IF ratioAbove(offer, remainingValues, 7) THEN "generous"
    ELSE IF ratioAbove(offer, remainingValues, 4) THEN "fair"
    ELSE "low"

\* the index Math.floor(Math.random() * categoryMessages.length): five messages each
Picks == 0..4

\* the message returned: message 'pick' of the list of its category
getBankerMessage(offer, remainingValues, round, pick) ==
    [category |-> messageCategory(offer, remainingValues, round), index |-> pick]

NewBanker == [offers |-> <<>>, currentOffer |-> 0, offerNumber |-> 0]

\* a Banker that pays out the first offer made
getFirstOffer(b) == IF b.offers = <<>> THEN 0 ELSE b.offers[1]

getCurrentOffer(b) == b.currentOffer

\* the random factor 0.95 + Math.random() * 0.1, in thousandths, of draw k
randomFactor(k) == 950 + (((k - 1) * 99) % 100)

\* calculateOffer's effect on the Banker: the early returns record nothing
recordOffer(b, remainingValues, round, k) ==
    IF recordsOffer(remainingValues)
    THEN LET amount == calculateOffer(remainingValues, round, b.offers, randomFactor(k))
         IN  [offers |-> Append(b.offers, amount), currentOffer |-> amount,
              offerNumber |-> b.offerNumber + 1]
    ELSE b

-----------------------------------------------------------------------------
(* Game *)

\* a game whose first round asks for seven briefcases
NewGameOfSeven(currentEliminatedCase) ==
    [gameState |-> "selecting", round |-> 1, casesToEliminate |-> 7,
     eliminatedThisRound |-> 0, currentEliminatedCase |-> currentEliminatedCase]

NewGame(currentEliminatedCase) ==
    [gameState |-> "selecting", round |-> 1, casesToEliminate |-> 6,
     eliminatedThisRound |-> 0, currentEliminatedCase |-> currentEliminatedCase]

\* the constructor: init() attaches the listeners and starts a new game;
\* currentEliminatedCase is not assigned yet
Init ==
    /\ \E d \in 1..NumShuffles : board = NewBoard(d)
    /\ banker = NewBanker
    /\ game = NewGame(Null)
    /\ tasks = EmptyBag
    /\ outcome = NoOutcome
    /\ sim = [remainingValues |-> <<>>, index |-> 0]
    /\ strays = 0

\* no call is suspended, no timer pending, no dialog open: the UI is not loading
Idle == tasks = EmptyBag

\* an intent arrives: one the UI offers at this point, or one more that got past it
Arrives(offered) ==
    IF offered THEN strays' = strays ELSE strays < MaxStrays /\ strays' = strays + 1

\* the briefcases a click is tried on: the first one free, the player's, and
\* the first one eliminated
Clickable ==
    {n \in getAvailableCases : \A m \in getAvailableCases : n <= m}
        \cup board.isSelected
        \cup {n \in board.isEliminated : \A m \in board.isEliminated : n <= m}

\* Board.handleBriefcaseClick lets the click through to the Game
Dispatched(n) == n \in Cases \ board.isEliminated

\* 'briefcaseClicked' while selecting: selectPlayerCase up to its first await
selectPlayerCase(n) ==
    /\ Arrives(Idle)
    /\ Dispatched(n)
    /\ game.gameState = "selecting"
    /\ board' = selectBriefcase(board, n)
    /\ tasks' = Spawn(tasks, Task("select", n, 0, 0, 0, FALSE))
    /\ UNCHANGED <<banker, game, outcome, sim>>

\* selectPlayerCase after the selection animations
selectPlayerCaseResume(t) ==
    /\ InFlight(t) /\ t.op = "select"
    /\ game' = [game EXCEPT !.gameState = "playing"]
    /\ tasks' = Retire(tasks, t)
    /\ UNCHANGED <<board, banker, outcome, sim, strays>>

\* 'briefcaseClicked' while playing: eliminateCase up to its first await
eliminateCase(n) ==
    /\ Arrives(Idle)
    /\ Dispatched(n)
    /\ game.gameState = "playing"
    /\ isCaseAvailable(n)
    /\ board' = eliminateBriefcase(board, n)
    /\ tasks' = Spawn(tasks, Task("eliminate", n, board.value[n], 0, 0, FALSE))
    /\ UNCHANGED <<banker, game, outcome, sim>>

\* a click the Board does not pass on, or the Game does nothing with
ignoredClick(n) ==
    /\ \/ ~Dispatched(n)
       \/ game.gameState \notin {"selecting", "playing"}
       \/ game.gameState = "playing" /\ ~isCaseAvailable(n)
    /\ UNCHANGED vars

\* what eliminateCase hands back: a bare return on every path, taken up or not
eliminateCaseResult(n) == "undefined"

handleBriefcaseClick(n) == selectPlayerCase(n) \/ eliminateCase(n) \/ ignoredClick(n)

\* eliminateCase after the animations: remembers the case and starts the timer
eliminateCaseResume(t) ==
    /\ InFlight(t) /\ t.op = "eliminate"
    /\ game' = [game EXCEPT !.currentEliminatedCase = [caseNumber |-> t.c, value |-> t.v]]
    /\ tasks' = Become(tasks, t, Plain("timer"))
    /\ UNCHANGED <<board, banker, outcome, sim, strays>>

\* handleContinueGame up to its first await
continueGameStart(bag) ==
    IF game.currentEliminatedCase = Null THEN bag
    ELSE Spawn(bag, Task("continue", game.currentEliminatedCase.caseNumber,
                         game.currentEliminatedCase.value, 0, 0, FALSE))

\* the timer of eliminateCase fires
continueTimer(t) ==
    /\ InFlight(t) /\ t.op = "timer"
    /\ tasks' = continueGameStart(Retire(tasks, t))
    /\ UNCHANGED <<board, banker, game, outcome, sim, strays>>

\* 'continueGame' from a Continue button
continueGame ==
    /\ game.currentEliminatedCase # Null
    /\ strays < MaxStrays
    /\ strays' = strays + 1
    /\ tasks' = continueGameStart(tasks)
    /\ UNCHANGED <<board, banker, game, outcome, sim>>

\* handleContinueGame after the money board animation: counts the elimination
continueCount(t) ==
    /\ InFlight(t) /\ t.op = "continue"
    /\ game' = [game EXCEPT !.eliminatedThisRound = @ + 1]
    /\ tasks' = Become(tasks, t, Plain("counted"))
    /\ UNCHANGED <<board, banker, outcome, sim, strays>>

\* a quota that leaves the player's briefcase out of the count
inPlayCasesToEliminate(remainingCases) ==
    IF remainingCases - 1 > 10 THEN 5
    ELSE IF remainingCases - 1 > 6 THEN 4
    ELSE IF remainingCases - 1 > 3 THEN 2
    ELSE 1

\* a quota of three where four are due
quotaOfThree(remainingCases) ==
    IF remainingCases > 10 THEN 5
    ELSE IF remainingCases > 6 THEN 3
    ELSE IF remainingCases > 3 THEN 2
    ELSE 1

\* the quota of handleDealRejected for a count of briefcases not eliminated
nextCasesToEliminate(remainingCases) ==
    IF remainingCases > 10 THEN 5
    ELSE IF remainingCases > 6 THEN 4
    ELSE IF remainingCases > 3 THEN 2
    ELSE 1

\* a round end that offers the switch only with a single briefcase left
switchDueAtOne(totalRemainingCases) == totalRemainingCases <= 1

\* the test of endRound: the game should end with two briefcases or fewer
switchDue(totalRemainingCases) == totalRemainingCases <= 2

\* endRound from handleContinueGame: the counter restarts; with two briefcases
\* or fewer the switch is offered (or the game ended), else the Banker offers
endRound(t) ==
    IF switchDue(getRemainingCasesCount)
    THEN IF Cardinality(getAvailableCases) # 1
         THEN \* offerSwitchOption falls back to endGame, up to showGameOver
              /\ game' = [game EXCEPT !.eliminatedThisRound = 0]
              /\ outcome' = [kind |-> "final", finalAmount |-> getSelectedCaseValue,
                             caseValue |-> getSelectedCaseValue, switched |-> FALSE]
              /\ tasks' = Become(tasks, t, Plain("endGame"))
              /\ UNCHANGED <<board, banker, sim, strays>>
         ELSE \* offerSwitchOption up to the await of its message
              LET lastRemainingCase == CHOOSE n \in getAvailableCases : TRUE
                  playerCase == getChosenCase
              IN  /\ game' = [game EXCEPT !.eliminatedThisRound = 0]
                  /\ tasks' = Become(tasks, t,
                        Task("switchOffer", lastRemainingCase, board.value[lastRemainingCase],
                             playerCase, IF playerCase = 0 THEN 0 ELSE board.value[playerCase],
                             FALSE))
                  /\ UNCHANGED <<board, banker, outcome, sim, strays>>
    ELSE /\ Len(banker.offers) < MaxOffers
         /\ \E k \in 1..NumJitters :
                banker' = recordOffer(banker, getRemainingValues, game.round, k)
         /\ game' = [game EXCEPT !.eliminatedThisRound = 0, !.gameState = "banker_offer"]
         /\ tasks' = Become(tasks, t, Plain("finish"))
         /\ UNCHANGED <<board, outcome, sim, strays>>

\* handleContinueGame after the counter animation: is the round complete?
continueCheck(t) ==
    /\ InFlight(t) /\ t.op = "counted"
    /\ IF game.eliminatedThisRound >= game.casesToEliminate
       THEN endRound(t)
       ELSE /\ tasks' = Become(tasks, t, Plain("finish"))
            /\ UNCHANGED <<board, banker, game, outcome, sim, strays>>

\* the end of handleContinueGame
continueFinish(t) ==
    /\ InFlight(t) /\ t.op = "finish"
    /\ game' = [game EXCEPT !.currentEliminatedCase = Null]
    /\ tasks' = Retire(tasks, t)
    /\ UNCHANGED <<board, banker, outcome, sim, strays>>

\* offerSwitchOption after its message: showSwitchOfferModal builds the dialog,
\* and throws on an undefined player's case
showSwitchOfferModal(t) ==
    /\ InFlight(t) /\ t.op = "switchOffer"
    /\ tasks' = IF t.o = 0 THEN Retire(tasks, t) ELSE Become(tasks, t, [t EXCEPT !.op = "switchModal"])
    /\ UNCHANGED <<board, banker, game, outcome, sim, strays>>

\* a button of the switch dialog: handleSwitchDecision up to its first await
handleSwitchDecision(t, switchChoice) ==
    /\ InFlight(t) /\ t.op = "switchModal"
    /\ board' = IF switchChoice THEN switchPlayerCase(board, t.c) ELSE board
    /\ tasks' = Become(tasks, t, [t EXCEPT !.op = "switched", !.sw = switchChoice])
    /\ UNCHANGED <<banker, game, outcome, sim, strays>>

\* endGameWithSwitch shows both values; the calls up to handleContinueGame return
endGameWithSwitch(t) ==
    /\ InFlight(t) /\ t.op = "switched"
    /\ outcome' = [kind |-> "switch", finalAmount |-> IF t.sw THEN t.v ELSE t.ov,
                   caseValue |-> IF t.sw THEN t.ov ELSE t.v, switched |-> t.sw]
    /\ game' = [game EXCEPT !.currentEliminatedCase = Null]
    /\ tasks' = Retire(tasks, t)
    /\ UNCHANGED <<board, banker, sim, strays>>

\* endGame after showGameOver; the calls up to handleContinueGame return
endGameFinish(t) ==
    /\ InFlight(t) /\ t.op = "endGame"
    /\ game' = [game EXCEPT !.gameState = "game_over", !.currentEliminatedCase = Null]
    /\ tasks' = Retire(tasks, t)
    /\ UNCHANGED <<board, banker, outcome, sim, strays>>

\* 'dealAccepted': handleDealAccepted up to its first await
handleDealAccepted ==
    /\ Arrives(Idle /\ game.gameState = "banker_offer")
    /\ tasks' = Spawn(tasks, Plain("accept"))
    /\ UNCHANGED <<board, banker, game, outcome, sim>>

\* handleDealAccepted after the Banker left: reads the amounts, shows the game over
dealAcceptedReveal(t) ==
    /\ InFlight(t) /\ t.op = "accept"
    /\ outcome' = [kind |-> "deal", finalAmount |-> getCurrentOffer(banker),
                   caseValue |-> getSelectedCaseValue, switched |-> FALSE]
    /\ tasks' = Become(tasks, t, Plain("accepted"))
    /\ UNCHANGED <<board, banker, game, sim, strays>>

dealAcceptedFinish(t) ==
    /\ InFlight(t) /\ t.op = "accepted"
    /\ game' = [game EXCEPT !.gameState = "game_over"]
    /\ tasks' = Retire(tasks, t)
    /\ UNCHANGED <<board, banker, outcome, sim, strays>>

\* 'dealRejected': handleDealRejected up to its first await
handleDealRejected ==
    /\ Arrives(Idle /\ game.gameState = "banker_offer")
    /\ tasks' = Spawn(tasks, Plain("reject"))
    /\ UNCHANGED <<board, banker, game, outcome, sim>>

\* handleDealRejected after the Banker left: the next round starts
dealRejectedAdvance(t) ==
    /\ InFlight(t) /\ t.op = "reject"
    /\ game.round < MaxRound
    /\ game' = [game EXCEPT !.round = @ + 1, !.gameState = "playing"]
    /\ tasks' = Become(tasks, t, Plain("rejected"))
    /\ UNCHANGED <<board, banker, outcome, sim, strays>>

\* handleDealRejected after the round counter animation: the next quota
dealRejectedQuota(t) ==
    /\ InFlight(t) /\ t.op = "rejected"
    /\ game' = [game EXCEPT !.casesToEliminate = nextCasesToEliminate(getRemainingCasesCount)]
    /\ tasks' = Retire(tasks, t)
    /\ UNCHANGED <<board, banker, outcome, sim, strays>>

\* 'playAgain', or the button of the final reveal (final): everything is reset
\* but currentEliminatedCase and the calls in flight
startNewGame(final) ==
    /\ final => outcome.kind = "switch"
    /\ Arrives(Idle /\ IF final THEN outcome.kind = "switch" ELSE outcome.kind \in {"deal", "final"})
    /\ IF tableFits(board.values)
       THEN /\ \E d \in 1..NumShuffles : board' = setupBoard(board.values, d)
            /\ banker' = NewBanker
            /\ game' = NewGame(game.currentEliminatedCase)
            /\ outcome' = IF outcome.kind = "switch" /\ ~final THEN outcome ELSE NoOutcome
       ELSE \* Board.reset throws in shuffleValues: nothing after it runs
            /\ board' = setupBriefcases(board.values)
            /\ UNCHANGED <<banker, game, outcome>>
    /\ UNCHANGED <<tasks, sim>>

Suspended == BagToSet(tasks)

Next ==
    \/ \E n \in Clickable : handleBriefcaseClick(n)
    \/ \E t \in Suspended : selectPlayerCaseResume(t)
    \/ \E t \in Suspended : eliminateCaseResume(t)
    \/ \E t \in Suspended : continueTimer(t)
    \/ continueGame
    \/ \E t \in Suspended : continueCount(t)
    \/ \E t \in Suspended : continueCheck(t)
    \/ \E t \in Suspended : continueFinish(t)
    \/ \E t \in Suspended : showSwitchOfferModal(t)
    \/ \E t \in Suspended, switchChoice \in BOOLEAN : handleSwitchDecision(t, switchChoice)
    \/ \E t \in Suspended : endGameWithSwitch(t)
    \/ \E t \in Suspended : endGameFinish(t)
    \/ handleDealAccepted
    \/ \E t \in Suspended : dealAcceptedReveal(t)
    \/ \E t \in Suspended : dealAcceptedFinish(t)
    \/ handleDealRejected
    \/ \E t \in Suspended : dealRejectedAdvance(t)
    \/ \E t \in Suspended : dealRejectedQuota(t)
    \/ \E final \in BOOLEAN : startNewGame(final)

Spec == Init /\ [][Next]_vars

-----------------------------------------------------------------------------
(* Banker.simulateOffers: the Banker prices a list of scenarios, scenario    *)
(* index (from 0) as round index + 1                                         *)

\* the scenarios tried: no values, a value that is not valid, and runs of the
\* table of values
Scenarios ==
    {<<>>, <<0>>} \cup
    {SubSeq(Values, lo, IF lo + len - 1 > NumCases THEN NumCases ELSE lo + len - 1) :
        lo \in {1 + SimStride * j : j \in 0..((NumCases - 1) \div SimStride)},
        len \in 1..SimMaxLen}

\* one call of calculateOffer in the map of simulateOffers
simulateOffers ==
    /\ sim.index < MaxSim
    /\ \E scenario \in Scenarios, k \in 1..SimJitters :
          /\ sim' = [remainingValues |-> scenario, index |-> sim.index + 1]
          /\ banker' = recordOffer(banker, scenario, sim.index + 1, k)
    /\ UNCHANGED <<board, game, tasks, outcome, strays>>

BankerNext == simulateOffers

BankerSpec == Init /\ [][BankerNext]_vars

-----------------------------------------------------------------------------
(* The phases of a session, read off the Game *)

DialogOpen == \E t \in Suspended : t.op \in {"switchModal", "switched"}

Phase ==
    IF game.gameState = "undefined" THEN "None"
    ELSE IF game.gameState = "selecting" THEN "Selecting"
    ELSE IF game.gameState = "banker_offer" THEN "OfferPresented"
    ELSE IF game.gameState = "game_over"
         THEN (IF outcome.kind = "deal" THEN "DealAccepted" ELSE "Concluded")
    ELSE IF DialogOpen THEN "SwitchDecision"
    ELSE IF outcome.kind = "switch" THEN "Concluded"
    ELSE "Playing"

Phases == {"Selecting", "Playing", "OfferPresented", "DealAccepted", "SwitchDecision", "Concluded"}

-----------------------------------------------------------------------------
(* Properties *)

\* C1: in every reachable state the values in the 26 briefcases are the table
\* of values, each value exactly once.
C1_ValuesAreTheTable ==
    /\ DOMAIN board.value = Cases
    /\ \A i \in 1..Len(Values) :
          Cardinality({n \in Cases : board.value[n] = Values[i]}) = 1

\* C1 after a shuffle that moved the values, eliminations, an offer and a switch
C1_Witness ==
    /\ board.value[1] = Values[NumCases]
    /\ outcome.kind = "switch" /\ outcome.switched
    /\ Cardinality(board.isEliminated) = NumCases - 2

\* C2: once a briefcase was picked, exactly one briefcase is flagged as the player's.
C2_ExactlyOneHeld ==
    board.selectedCase # 0 => Cardinality(board.isSelected) = 1

\* the edges of the documented state machine
DocumentedEdges ==
    { <<"Selecting", "Playing">>, <<"Playing", "OfferPresented">>,
      <<"OfferPresented", "Playing">>, <<"OfferPresented", "DealAccepted">>,
      <<"Playing", "SwitchDecision">>, <<"SwitchDecision", "Concluded">> }
    \cup {<<p, "Selecting">> : p \in Phases}

\* C3: the phase changes only along the documented edges.
C3_DocumentedEdgesOnly ==
    [][Phase' # Phase => <<Phase, Phase'>> \in DocumentedEdges]_vars

\* the step of handleDealRejected that sets the next quota
RejectSetsQuota == \E t \in Suspended : dealRejectedQuota(t)

\* C4 (as the code has it): on a rejected offer the new quota is a function of
\* n = the number of briefcases not eliminated, the player's included:
\* n > 10 gives 5, n > 6 gives 4, n > 3 gives 2, otherwise 1.
C4_QuotaFromRemaining ==
    [][RejectSetsQuota =>
         LET n == Cardinality(Cases \ board.isEliminated)
         IN  game'.casesToEliminate =
                IF n > 10 THEN 5 ELSE IF n > 6 THEN 4 ELSE IF n > 3 THEN 2 ELSE 1]_vars

\* C4 where it differs from counting the briefcases in play: 4 left, quota 2
C4_Witness ==
    /\ strays = 0
    /\ game.round > 1 /\ game.gameState = "playing" /\ Idle
    /\ Cardinality(Cases \ board.isEliminated) = 4
    /\ Cardinality(board.isSelected) = 1
    /\ game.casesToEliminate = 2

\* C4 as stated: n = the number of briefcases neither held nor eliminated.
C4_QuotaFromInPlay ==
    [][RejectSetsQuota =>
         LET n == Cardinality(Cases \ (board.isEliminated \cup board.isSelected))
         IN  game'.casesToEliminate =
                IF n > 10 THEN 5 ELSE IF n > 6 THEN 4 ELSE IF n > 3 THEN 2 ELSE 1]_vars

\* the round structure of the README: 6, 5, 4, 3, 2, then 1 per round
ReadmeCasesToEliminate(round) == IF round <= 5 THEN 7 - round ELSE 1

\* C5: in a session played in turn where every offer is rejected, the briefcases
\* to eliminate in rounds 1, 2, 3, ... are 6, 5, 4, 3, 2, 1, 1, 1.
C5_ReadmeRoundStructure ==
    (strays = 0 /\ Idle /\ game.gameState = "playing")
        => game.casesToEliminate = ReadmeCasesToEliminate(game.round)

\* C6: eliminatedThisRound never exceeds the quota of the round.
C6_WithinQuota == game.eliminatedThisRound <= game.casesToEliminate

\* the last call of simulateOffers' map recorded an offer
Priced == sim.index > 0 /\ recordsOffer(sim.remainingValues)

PreviousOffer == banker.offers[Len(banker.offers) - 1]

\* C7 (as the code has it): an offer made in a round > 1 after an earlier offer
\* is at least the smaller of 1.05 times that offer and the cap (95% of the
\* expected value for three values or fewer, else 85%), rounded to whole pounds.
C7_ProgressionUpToCap ==
    (Priced /\ sim.index > 1 /\ Len(banker.offers) > 1) =>
        LET n     == Len(sim.remainingValues)
            cap   == Q(MulSmall(SumSeq(sim.remainingValues), IF n <= 3 THEN 95 ELSE 85),
                       <<100, n, 100>>)
            raise == Q(FromInt(PreviousOffer * 105), <<100>>)
        IN  banker.currentOffer >= MathRound(IF QLess(cap, raise) THEN cap ELSE raise)

\* C7 where the progression step raised the second offer above the first
C7_Witness ==
    /\ Priced /\ sim.index = 2 /\ Len(banker.offers) = 2
    /\ banker.offers[1] >= 100
    /\ banker.offers[2] * 100 >= banker.offers[1] * 105
    /\ banker.offers[2] * 100 < banker.offers[1] * 106

\* C7 as stated: an offer made in a round > 1 is at least 1.05 times the offer before it.
C7_AtLeastFivePercentMore ==
    (Priced /\ sim.index > 1 /\ Len(banker.offers) > 1) =>
        banker.currentOffer * 100 >= PreviousOffer * 105

\* C8: an offer recorded for valid values is at most 95% of their mean when
\* three values or fewer remain, and at most 85% of it otherwise.
C8_OfferWithinCeiling ==
    Priced =>
        LET n == Len(sim.remainingValues)
        IN  Leq(MulAll(FromInt(banker.currentOffer), <<100, n, 100>>),
                MulSmall(SumSeq(sim.remainingValues), IF n <= 3 THEN 95 ELSE 85))

\* C9: with three values or fewer remaining the offer is at least 85% of their mean.
C9_EndgameFloor ==
    (Priced /\ Len(sim.remainingValues) <= 3) =>
        LET n == Len(sim.remainingValues)
        IN  Leq(MulSmall(SumSeq(sim.remainingValues), 85),
                MulAll(FromInt(banker.currentOffer), <<100, n, 100>>))

\* C10: the switch decision is entered only with exactly two briefcases not eliminated.
C10_SwitchOnlyAtTwo ==
    [][(Phase # "SwitchDecision" /\ Phase' = "SwitchDecision")
          => Cardinality(Cases \ board'.isEliminated) = 2]_vars

\* the step of handleContinueGame that finds the round complete with exactly two
\* briefcases not eliminated, the player's and one other
RoundEndsAtTwo ==
    /\ \E t \in Suspended : continueCheck(t)
    /\ game.eliminatedThisRound >= game.casesToEliminate
    /\ Cardinality(Cases \ board.isEliminated) = 2
    /\ Cardinality(board.isSelected \ board.isEliminated) = 1

\* offerSwitchOption is waiting to show the switch dialog
AwaitingSwitchDialog == \E t \in Suspended : t.op = "switchOffer"

\* C11: when a round ends with exactly two briefcases not eliminated (the player's
\* and one other) the switch is offered at once: that step computes no offer and
\* leaves the Game waiting to open the switch dialog, and until the dialog opens
\* the offer history does not grow and the Banker's offer is not presented.
C11_StraightToSwitch ==
    [][/\ RoundEndsAtTwo =>
            /\ banker' = banker
            /\ game'.gameState = game.gameState
            /\ AwaitingSwitchDialog'
       /\ AwaitingSwitchDialog =>
            /\ Len(banker'.offers) <= Len(banker.offers)
            /\ Phase' = "OfferPresented" => Phase = "OfferPresented"]_vars

\* C11 in a session played in turn: five offers rejected, the dialog open in round 6
C11_Witness ==
    /\ strays = 0
    /\ \E t \in Suspended : t.op = "switchModal"
    /\ Cardinality(Cases \ board.isEliminated) = 2
    /\ Len(banker.offers) = 5 /\ game.round = 6
    /\ game.gameState = "playing"

\* C12: at the switch dialog, switching makes the other briefcase the player's:
\* the selected case of the Board (the id its statistics and the saved game
\* state report) becomes the other briefcase's number, the former one is no
\* longer flagged, and the final reveal pays the other briefcase's value;
\* keeping changes neither, and the reveal pays the original briefcase's value
\* (in a session played in turn).
C12_SwitchMovesHeld ==
    [][strays = 0 => \A t \in Suspended :
         /\ handleSwitchDecision(t, TRUE) =>
                /\ board'.selectedCase = t.c
                /\ board'.isSelected = {t.c}
         /\ handleSwitchDecision(t, FALSE) =>
                /\ board'.selectedCase = board.selectedCase
                /\ board'.isSelected = board.isSelected
         /\ endGameWithSwitch(t) =>
                outcome'.finalAmount = board.value[IF t.sw THEN t.c ELSE t.o]]_vars

\* the briefcases an eliminate intent is not for: the player's and the eliminated
Ineligible == board.isSelected \cup board.isEliminated

\* C13 (as the code has it): while playing, a click on a briefcase that is
\* eliminated or the player's changes nothing: the briefcases, the counters, the
\* round, the quota, the offers, the calls in flight and the phase stay as they
\* are.  The click is dropped silently.
C13_IneligibleIsNoOp ==
    [][\A n \in Cases :
          (game.gameState = "playing" /\ n \in Ineligible /\ handleBriefcaseClick(n))
              => /\ UNCHANGED <<board, banker, game, outcome, tasks>>
                 /\ Phase' = Phase]_vars

\* C13 where such clicks are tried: a round under way in a session played in
\* turn, the player's briefcase and an eliminated one both clicked on and dropped
C13_Witness ==
    /\ strays = 0 /\ Idle
    /\ game.gameState = "playing" /\ game.eliminatedThisRound > 0
    /\ \E n \in board.isSelected \cap Clickable : ENABLED ignoredClick(n)
    /\ \E n \in board.isEliminated \cap Clickable : ENABLED ignoredClick(n)

\* an eliminate intent for an ineligible briefcase is answered as rejected
RejectionReported ==
    \A n \in Cases :
        (game.gameState = "playing" /\ n \in Ineligible)
            => eliminateCaseResult(n) = "IllegalIntent"

\* C13 as stated: the click is a no-op and the intent is reported as rejected.
C13_NoOpAndReported == C13_IneligibleIsNoOp /\ []RejectionReported

\* the steps in which an answer to the Banker takes effect: the round advances,
\* or the deal is paid out
AnswerTakesEffect ==
    \E t \in Suspended : dealRejectedAdvance(t) \/ dealAcceptedReveal(t)

\* C14: an intent that is illegal in the current phase changes nothing: an
\* answer to the Banker takes effect only while an offer is presented (not while
\* selecting or playing, at the switch dialog, after the game ended, or a second
\* time for the same offer), and a click on a briefcase while an offer is
\* presented changes neither the board, the Game nor the offers.
C14_IllegalIntentIsNoOp ==
    [][/\ AnswerTakesEffect => Phase = "OfferPresented"
       /\ \A n \in Cases :
             (Phase = "OfferPresented" /\ handleBriefcaseClick(n))
                 => UNCHANGED <<board, banker, game>>]_vars

\* C15: once the switch dialog was answered and the final reveal is shown, no
\* click on a briefcase changes the briefcases, the counters or the phase; only
\* a new game leaves that state (in a session played in turn).
C15_ConcludedIsTerminal ==
    [][(strays = 0 /\ Phase = "Concluded" /\ \E n \in Cases : handleBriefcaseClick(n))
          => /\ UNCHANGED <<board, game>>
             /\ Phase' = Phase]_vars

\* C16: a deal accepted while the offer is presented to a player holding a
\* briefcase (the one the Board has as selected is flagged as the player's) ends
\* the game as a deal: the amount paid is the last entry of the offer history,
\* the briefcase value shown with it is the value of the player's briefcase at
\* that moment, and the game is over once the reveal was shown.
C16_DealPaysLastOffer ==
    [][\A t \in Suspended :
         /\ (/\ Phase = "OfferPresented"
             /\ board.selectedCase \in board.isSelected
             /\ dealAcceptedReveal(t)) =>
                /\ outcome'.kind = "deal"
                /\ banker.offers # <<>>
                /\ outcome'.finalAmount = banker.offers[Len(banker.offers)]
                /\ outcome'.caseValue = board.value[board.selectedCase]
         /\ (outcome.kind = "deal" /\ dealAcceptedFinish(t)) =>
                Phase' = "DealAccepted"]_vars

\* C16 after a deal on a later offer that differs from the first one
C16_Witness ==
    /\ strays = 0 /\ Idle
    /\ Phase = "DealAccepted"
    /\ Len(banker.offers) > 1
    /\ outcome.finalAmount = banker.offers[Len(banker.offers)]
    /\ outcome.finalAmount # banker.offers[1]
    /\ board.selectedCase \in board.isSelected
    /\ outcome.caseValue = board.value[board.selectedCase]

\* the amount the last call of calculateOffer returned: the offer it recorded,
\* or the value of an early return
LastReturned ==
    IF recordsOffer(sim.remainingValues) THEN banker.currentOffer
    ELSE calculateOffer(sim.remainingValues, sim.index, banker.offers, randomFactor(1))

\* C17: the offer history only grows by appending, and whenever the Banker has
\* just returned an offer (a fallback included) its length is the number of
\* offers returned so far and its last entry is that offer.
C17_EveryOfferRecorded ==
    /\ [][\/ banker'.offers = banker.offers
          \/ /\ Len(banker'.offers) = Len(banker.offers) + 1
             /\ SubSeq(banker'.offers, 1, Len(banker.offers)) = banker.offers]_vars
    /\ []((sim.index > 0 /\ LastReturned > 0) =>
            /\ Len(banker.offers) = sim.index
            /\ banker.offers[Len(banker.offers)] = LastReturned)

\* C18: the round starts at 1 and advances once for each offer rejected, so
\* it is never more than one ahead of the number of offers made, and it advances
\* only in answer to an offer that is presented.
C18_OneRoundPerOffer ==
    /\ [](game.round <= Len(banker.offers) + 1)
    /\ [][game'.round # game.round =>
             \/ game'.round = 1
             \/ game'.round = game.round + 1 /\ Phase = "OfferPresented"]_vars

\* the step of endRound in which the Banker makes an offer
OfferMade == (\E t \in Suspended : continueCheck(t)) /\ banker' # banker

\* C19 (as the code has it): every offer of a game is computed from the values
\* of all the briefcases not eliminated, the player's included (the offer of
\* round 1, after 6 eliminations, from 20 values).
C19_OfferFromAllRemaining ==
    [][OfferMade =>
         \E k \in 1..NumJitters :
             banker'.currentOffer =
                 calculateOffer(valuesOf(getAvailableCases \cup (board.isSelected \ board.isEliminated)),
                                game.round, banker.offers, randomFactor(k))]_vars

\* C19 at the first offer of a session played in turn: 20 briefcases left, and
\* the offer is not the one the 19 in play would give
C19_Witness ==
    /\ strays = 0
    /\ game.gameState = "banker_offer" /\ game.round = 1
    /\ Len(banker.offers) = 1
    /\ Cardinality(board.isSelected) = 1
    /\ Len(valuesOf(Cases \ board.isEliminated)) = 20
    /\ Len(valuesOf(getAvailableCases)) = 19
    /\ \A k \in 1..NumJitters :
           banker.currentOffer # calculateOffer(valuesOf(getAvailableCases), 1, <<>>, randomFactor(k))

\* C19 as stated: every offer is computed from the values of the briefcases in
\* play, the player's left out (the offer of round 1 from 19 values).
C19_OfferFromInPlay ==
    [][OfferMade =>
         \E k \in 1..NumJitters :
             banker'.currentOffer =
                 calculateOffer(valuesOf(getAvailableCases), game.round, banker.offers,
                                randomFactor(k))]_vars

\* C20: no briefcase is both the player's and eliminated, and a briefcase stops
\* being the player's only by the switch (or with the board of a new game).
C20_HeldNeverEliminated ==
    /\ [](board.isSelected \cap board.isEliminated = {})
    /\ [][~(board.isSelected \subseteq board'.isSelected) =>
             \/ \E t \in Suspended : handleSwitchDecision(t, TRUE)
             \/ \E final \in BOOLEAN : startNewGame(final)]_vars


\* the state a session starts in: nothing picked, nothing opened, nothing offered
FreshSession ==
    /\ game.gameState = "selecting"
    /\ game.round = 1
    /\ game.casesToEliminate = 6
    /\ game.eliminatedThisRound = 0
    /\ board.isSelected = {}
    /\ board.isEliminated = {}
    /\ banker.offers = <<>>

\* the player asks for another game
NewSession == \E final \in BOOLEAN : startNewGame(final)

\* C21: a new game, whenever it is started, begins in the fresh state, and
\* nothing left over from the game before it changes the new one: as long as
\* no briefcase has been opened in a game, no elimination is counted in it.
C21_NewSessionReplacesState ==
    /\ [][NewSession => FreshSession']_vars
    /\ [](board.isEliminated = {} => game.eliminatedThisRound = 0)

\* the number of briefcases opened so far
Opened == Cardinality(board.isEliminated)

\* C22: in a session played in turn, the first round goes as follows: until six
\* briefcases are opened the game is Selecting or Playing and no offer exists;
\* once the player's briefcase is selected and six others are opened the
\* offer is presented in round 1 with exactly one offer recorded; and when that
\* offer has been rejected the game is Playing in round 2 with a quota of 5
\* and nothing eliminated in the round yet.
C22_FirstRound ==
    strays = 0 =>
        /\ (game.round = 1 /\ Opened < 6) =>
                /\ Phase \in {"Selecting", "Playing"}
                /\ banker.offers = <<>>
        /\ (game.round = 1 /\ Opened = 6 /\ Idle) =>
                /\ Phase \in {"OfferPresented", "DealAccepted"}
                /\ Len(banker.offers) = 1
                /\ Cardinality(board.isSelected \ board.isEliminated) = 1
        /\ (game.round = 1 /\ Phase = "OfferPresented") =>
                /\ Opened = 6
                /\ Len(banker.offers) = 1
        /\ (game.round = 2 /\ Opened = 6 /\ Idle) =>
                /\ Phase = "Playing"
                /\ game.casesToEliminate = 5
                /\ game.eliminatedThisRound = 0
                /\ Len(banker.offers) = 1

\* C22: the first offer was rejected and round 2 is about to be played
C22_Witness ==
    /\ strays = 0 /\ Idle
    /\ game.round = 2 /\ Opened = 6
    /\ Phase = "Playing"
    /\ game.casesToEliminate = 5
    /\ Len(banker.offers) = 1

-----------------------------------------------------------------------------
(* A session played in turn to its end: every intent is one the UI offers,   *)
(* the event loop runs every pending timer and continuation, and the player  *)
(* keeps answering.                                                           *)

InTurn == strays' = strays

TurnNext ==
    \/ InTurn /\ \E n \in Clickable : handleBriefcaseClick(n)
    \/ InTurn /\ \E t \in Suspended : selectPlayerCaseResume(t)
    \/ InTurn /\ \E t \in Suspended : eliminateCaseResume(t)
    \/ InTurn /\ \E t \in Suspended : continueTimer(t)
    \/ InTurn /\ \E t \in Suspended : continueCount(t)
    \/ InTurn /\ \E t \in Suspended : continueCheck(t)
    \/ InTurn /\ \E t \in Suspended : continueFinish(t)
    \/ InTurn /\ \E t \in Suspended : showSwitchOfferModal(t)
    \/ InTurn /\ \E t \in Suspended, switchChoice \in BOOLEAN : handleSwitchDecision(t, switchChoice)
    \/ InTurn /\ \E t \in Suspended : endGameWithSwitch(t)
    \/ InTurn /\ handleDealAccepted
    \/ InTurn /\ \E t \in Suspended : dealAcceptedReveal(t)
    \/ InTurn /\ \E t \in Suspended : dealAcceptedFinish(t)
    \/ InTurn /\ handleDealRejected
    \/ InTurn /\ \E t \in Suspended : dealRejectedAdvance(t)
    \/ InTurn /\ \E t \in Suspended : dealRejectedQuota(t)
    \/ InTurn /\ \E final \in BOOLEAN : startNewGame(final)

\* the player keeps answering: a click, an answer to the Banker, a button of the
\* switch dialog
PlayerActs ==
    /\ InTurn
    /\ \/ \E n \in Clickable : handleBriefcaseClick(n)
       \/ handleDealAccepted
       \/ handleDealRejected
       \/ \E t \in Suspended, switchChoice \in BOOLEAN : handleSwitchDecision(t, switchChoice)

\* the event loop resumes a call suspended at an await, or fires the timer
EventLoopRuns ==
    /\ InTurn
    /\ \E t \in Suspended :
        \/ selectPlayerCaseResume(t)
        \/ eliminateCaseResume(t)
        \/ continueTimer(t)
        \/ continueCount(t)
        \/ continueFinish(t)
        \/ showSwitchOfferModal(t)
        \/ endGameWithSwitch(t)
        \/ dealAcceptedReveal(t)
        \/ dealAcceptedFinish(t)
        \/ dealRejectedAdvance(t)
        \/ dealRejectedQuota(t)

\* where handleContinueGame is suspended next once its round check has run: at
\* its last await, in endGame, or in offerSwitchOption
AfterCheck ==
    {Plain("finish"), Plain("endGame")} \cup
    {Task("switchOffer", c, board.value[c], getChosenCase,
          IF getChosenCase = 0 THEN 0 ELSE board.value[getChosenCase], FALSE) :
        c \in getAvailableCases}

\* the event loop resumes handleContinueGame at its round check (continueCheck,
\* seen on the calls in flight only)
RoundCheckRuns ==
    \E t \in Suspended :
        /\ t.op = "counted"
        /\ \E u \in AfterCheck : tasks' = Become(tasks, t, u)

LiveSpec ==
    /\ Init /\ [][TurnNext]_vars
    /\ WF_vars(PlayerActs)
    /\ WF_vars(EventLoopRuns)
    /\ WF_tasks(RoundCheckRuns)

\* the session is over
Terminated == Phase \in {"DealAccepted", "Concluded"}

\* C23: a session played in turn by a player who keeps answering ends: from
\* Selecting it reaches DealAccepted or Concluded; once five offers have been
\* rejected (round 6, no result yet) it reaches the switch dialog; and the switch dialog is
\* open only after exactly 24 eliminations, with the player's briefcase and
\* exactly one other briefcase unopened.
C23_SessionTerminates ==
    /\ (Phase = "Selecting") ~> Terminated
    /\ (game.round = 6 /\ outcome.kind = "none") ~> DialogOpen
    /\ [](DialogOpen =>
            /\ Opened = 24
            /\ Cardinality(board.isSelected \ board.isEliminated) = 1
            /\ Cardinality(getAvailableCases) = 1)

\* C23: every offer was rejected and the switch dialog is open
C23_Witness ==
    /\ \E t \in Suspended : t.op = "switchModal"
    /\ Opened = 24
    /\ Len(banker.offers) = 5
    /\ Cardinality(getAvailableCases) = 1

\* no entry of the scenario is a positive amount (an empty scenario included)
NoValidValue(remainingValues) ==
    \A i \in 1..Len(remainingValues) : remainingValues[i] <= 0

\* C24: a call of calculateOffer on a scenario with no valid value returns a
\* plain number, 0 for no values and the default 1000 otherwise, and leaves the
\* Banker as it was: no offer is recorded and nothing else changes.
C24_FallbackIsOrdinary ==
    [][NoValidValue(sim'.remainingValues) =>
            /\ banker' = banker
            /\ LastReturned' \in Nat
            /\ LastReturned' = IF sim'.remainingValues = <<>> THEN 0 ELSE 1000]_vars

\* C24: a scenario was priced after a call that fell back
C24_Witness ==
    /\ sim.index = 2
    /\ ~NoValidValue(sim.remainingValues)
    /\ Len(banker.offers) = 1
    /\ banker.currentOffer > 0

-----------------------------------------------------------------------------
(* The start of the page on a Board written with some table of values:      *)
(* initializeApplication constructs the Game, whose Board shuffles the table *)

\* the tables tried: the one of Board.js, the 25 values of the README, and one
\* value too many
Tables == {Values, Tail(Values), Values \o <<100>>}

\* the global 'game' was never assigned: no Game, no listener
NoGame ==
    [gameState |-> "undefined", round |-> 0, casesToEliminate |-> 0,
     eliminatedThisRound |-> 0, currentEliminatedCase |-> Null]

\* showCriticalError: the page shows the error and a reload button
CriticalError == [NoOutcome EXCEPT !.kind = "critical"]

\* new Game() inside the try of initializeApplication
initializeApplication(values) ==
    /\ IF tableFits(values)
       THEN /\ \E d \in 1..NumShuffles : board = setupBoard(values, d)
            /\ game = NewGame(Null)
            /\ outcome = NoOutcome
       ELSE /\ board = setupBriefcases(values)
            /\ game = NoGame
            /\ outcome = CriticalError
    /\ banker = NewBanker
    /\ tasks = EmptyBag
    /\ sim = [remainingValues |-> <<>>, index |-> 0]
    /\ strays = 0

ConfigInit == \E values \in Tables : initializeApplication(values)

\* the listeners exist once the Game was constructed
ConfigNext == game # NoGame /\ Next

ConfigSpec == ConfigInit /\ [][ConfigNext]_vars

\* a state the player can act in
Playable == game.gameState \in {"selecting", "playing", "banker_offer"}

\* the Board holds a table whose size is not the number of briefcases
Mismatched == Len(board.values) # NumCases

\* C25: with a table of values whose size is not the number of briefcases the
\* start fails with the critical error and no Game exists: no playable state,
\* at the start or after a new game, has such a table.
C25_MismatchIsFatal ==
    /\ Mismatched =>
            /\ game = NoGame
            /\ outcome = CriticalError
            /\ tasks = EmptyBag
    /\ Playable => ~Mismatched

\* C25: the page was started on the 25 values of the README
C25_Witness ==
    /\ board.values = Tail(Values)
    /\ game = NoGame
    /\ outcome = CriticalError

\* C26: within a session a briefcase that is eliminated stays eliminated:
\* only the start of a new game takes briefcases out of the eliminated ones,
\* so their number never decreases within a session.
C26_EliminatedStays ==
    [][\/ /\ board.isEliminated \subseteq board'.isEliminated
          /\ Opened' >= Opened
       \/ NewSession]_vars

\* C26: the second offer is presented with 11 briefcases eliminated
C26_Witness ==
    /\ Opened = 11
    /\ game.round = 2
    /\ Phase = "OfferPresented"
    /\ Len(banker.offers) = 2

\* 'tenths / 10' of the mean of the values (in pence) is less than the pounds
MeanBelow(remainingValues, pounds, tenths) ==
    LET sum == SumSeq(remainingValues)
    IN  Less(MulSmall(sum, tenths),
             MulAll(FromInt(pounds), <<10, 100, Len(remainingValues)>>))

\* the tone the rule gives: final with at most two values, else pressure after
\* round 4, else by the ratio of the offer to the mean of the values
Tone(offer, remainingValues, round) ==
    IF Len(remainingValues) <= 2 THEN "final"
    ELSE IF round > 4 THEN "pressure"
    ELSE IF MeanBelow(remainingValues, offer, 7) THEN "generous"
    ELSE IF MeanBelow(remainingValues, offer, 4) THEN "fair"
    ELSE "low"

\* C27: the category of the message that goes with an offer is a function of
\* the amount, the values passed and the round: whichever message the random
\* pick takes, its category is the one the rule gives.
C27_ToneIsAFunction ==
    [][OfferMade =>
         \A pick \in Picks :
            getBankerMessage(banker'.currentOffer, getRemainingValues, game.round, pick).category
                = Tone(banker'.currentOffer, getRemainingValues, game.round)]_vars

\* C27: an offer in round 3 that is more than 70% of the mean is presented
C27_Witness ==
    /\ Phase = "OfferPresented" /\ strays = 0
    /\ game.round = 3
    /\ \E t \in Suspended : t.op = "finish"
    /\ messageCategory(banker.currentOffer, getRemainingValues, game.round) = "generous"

\* C28: every elimination is counted exactly once: in the first round, whenever
\* nothing is pending, eliminatedThisRound is the number of briefcases
\* eliminated so far, also when a click or a 'continueGame' came in while the
\* continuation of an earlier elimination was still pending.
C28_CountedOnce ==
    (game.round = 1 /\ game.gameState = "playing" /\ Idle) =>
        game.eliminatedThisRound = Opened

\* C29: a click on an eliminated briefcase changes nothing, and a selection
\* is accepted only while no briefcase is flagged as the player's.
C29_SelectOnlyWhenNoneHeld ==
    [][/\ (\E n \in board.isEliminated : handleBriefcaseClick(n)) =>
              UNCHANGED <<board, banker, game>>
       /\ (\E n \in Clickable : selectPlayerCase(n)) => board.isSelected = {}]_vars

-----------------------------------------------------------------------------
(* The Board called directly, as devTools.skipToEnd calls eliminateBriefcase: *)
(* no Game in between                                                          *)

\* the ids the calls are tried on: two that name no briefcase, and a few that do
BoardIds == {0, 1, 2, 3, NumCases, NumCases + 1}

\* getBriefcase finds the briefcase, and its element is on the page
getBriefcase(n) == n \in Cases

\* Board.selectBriefcase: false for an id without a briefcase
boardSelect(n) ==
    /\ board' = IF getBriefcase(n) THEN selectBriefcase(board, n) ELSE board
    /\ UNCHANGED <<banker, game, tasks, outcome, sim, strays>>

\* what Board.eliminateBriefcase resolves to: the value, or null (0 here)
eliminateBriefcaseReturns(b, n) ==
    IF ~getBriefcase(n) \/ n \in b.isEliminated THEN 0 ELSE b.value[n]

\* Board.eliminateBriefcase: refuses an id without a briefcase and a briefcase
\* already eliminated
boardEliminate(n) ==
    /\ board' = IF eliminateBriefcaseReturns(board, n) = 0 THEN board
                ELSE eliminateBriefcase(board, n)
    /\ UNCHANGED <<banker, game, tasks, outcome, sim, strays>>

BoardNext ==
    \/ \E n \in BoardIds : boardSelect(n)
    \/ \E n \in BoardIds : boardEliminate(n)

BoardSpec == Init /\ [][BoardNext]_vars

\* C30: Board.eliminateBriefcase, called on the player's briefcase, on an
\* eliminated briefcase or on an id without a briefcase, returns null and
\* leaves the Board as it is.
C30_BoardRefusesHeld ==
    [][\A n \in BoardIds :
          (boardEliminate(n) /\ (~getBriefcase(n) \/ n \in Ineligible)) =>
              /\ eliminateBriefcaseReturns(board, n) = 0
              /\ board' = board]_vars

-----------------------------------------------------------------------------
(* Banker.makeOffer called directly: one offer asked of a fresh Banker, for  *)
(* any round and any run of the table of values                             *)

MaxAskRound == 8
MaxAskLen == 16
AskStride == 7
AskJitters == 2

AskScenarios ==
    {SubSeq(Values, lo, IF lo + len - 1 > NumCases THEN NumCases ELSE lo + len - 1) :
        lo \in {1 + AskStride * j : j \in 0..((NumCases - 1) \div AskStride)},
        len \in 1..MaxAskLen}

\* sim keeps the arguments of the call: the values and the round
makeOffer ==
    /\ banker.offers = <<>>
    /\ \E scenario \in AskScenarios, round \in 1..MaxAskRound, k \in 1..AskJitters :
          /\ sim' = [remainingValues |-> scenario, index |-> round]
          /\ banker' = recordOffer(banker, scenario, round, k)
    /\ UNCHANGED <<board, game, tasks, outcome, strays>>

AskNext == makeOffer

AskSpec == Init /\ [][AskNext]_vars

\* the Banker has been asked
Asked == banker.offers # <<>>
AskedRound == sim.index
AskedValues == validValues(sim.remainingValues)

\* the ramp of the round multiplier, in hundredths, for rounds 1..6
Ramp == <<25, 35, 45, 55, 65, 75>>

\* the step function as documented: the count of remaining values first, then
\* the round
StepFunction(round, remaining) ==
    CASE remaining \in 0..2  -> 95
      [] remaining = 3       -> 90
      [] remaining \in 4..5  -> 85
      [] remaining \in 6..10 -> 80
      [] OTHER -> IF round \in DOMAIN Ramp THEN Ramp[round] ELSE 70

\* C31: for every round and count of remaining values the round multiplier is the
\* documented step function, the thresholds on the count taking precedence over
\* the round.
C31_RoundMultiplierIsStepFunction ==
    Asked => getRoundMultiplier(AskedRound, Len(AskedValues))
                 = StepFunction(AskedRound, Len(AskedValues))

\* the Banker asked in round 3 with four values left: the count decides (0.85),
\* not the round (0.45)
C31_Witness ==
    /\ Asked
    /\ AskedRound = 3
    /\ Len(AskedValues) = 4
    /\ getRoundMultiplier(AskedRound, Len(AskedValues)) = 85

\* C32 (as stated): for a fixed count of remaining values above 10 the round
\* multiplier never falls as the round grows, for any rounds r1 <= r2.
C32_MonotoneInRound ==
    (Asked /\ Len(AskedValues) > 10) =>
        \A r1 \in 1..AskedRound :
            getRoundMultiplier(r1, Len(AskedValues))
                <= getRoundMultiplier(AskedRound, Len(AskedValues))

\* C32 (amended): for a fixed count of remaining values above 10 the round
\* multiplier never falls as the round grows from 1 to 6; any later round gets
\* 0.70, less than round 6.
C32_MonotoneToRoundSix ==
    (Asked /\ Len(AskedValues) > 10) =>
        IF AskedRound <= 6
        THEN \A r1 \in 1..AskedRound :
                getRoundMultiplier(r1, Len(AskedValues))
                    <= getRoundMultiplier(AskedRound, Len(AskedValues))
        ELSE /\ getRoundMultiplier(AskedRound, Len(AskedValues)) = 70
             /\ getRoundMultiplier(6, Len(AskedValues)) > 70

\* the Banker asked in round 6 with eleven values left
C32_Witness ==
    /\ Asked
    /\ AskedRound = 6
    /\ Len(AskedValues) = 11
    /\ getRoundMultiplier(5, 11) < getRoundMultiplier(6, 11)

\* the pressure rule as documented: at least three earlier offers, and the last
\* three average more than 60% of the mean of the remaining values
LastThreeAbove(remainingValues, offers) ==
    /\ Len(offers) >= 3
    /\ Less(MulSmall(SumSeq(remainingValues), 18),
            MulAll(FromInt(offers[Len(offers)] + offers[Len(offers) - 1] + offers[Len(offers) - 2]),
                   <<10, 100, Len(remainingValues)>>))

\* C33: whenever the Banker makes an offer, the pressure factor (x1.10) is part
\* of the psychology multiplier exactly when three or more earlier offers exist
\* and the last three average more than 60% of the expected value.
C33_PressureFromThreeOffers ==
    [][OfferMade =>
         ((getPsychologyMultiplier(getRemainingValues, banker.offers)[1] = 110)
             <=> LastThreeAbove(getRemainingValues, banker.offers))]_vars

\* C34: every offer recorded for a non-empty set of valid values is a positive
\* amount of at least 1 pound.
C34_OfferAtLeastOne ==
    \A i \in 1..Len(banker.offers) : banker.offers[i] >= 1

\* (x - y)^2
SquaredGap(x, y) ==
    LET gap == FromInt(IF x < y THEN y - x ELSE x - y)
    IN  Mul(gap, gap)

\* the sum of (vs[i] - vs[j])^2 over j < i <= hi
RECURSIVE GapsBelow(_, _, _)
GapsBelow(vs, i, j) ==
    IF j = 0 THEN <<>> ELSE Add(SquaredGap(vs[i], vs[j]), GapsBelow(vs, i, j - 1))

RECURSIVE PairSpread(_, _)
PairSpread(vs, hi) ==
    IF hi <= 1 THEN <<>> ELSE Add(GapsBelow(vs, hi, hi - 1), PairSpread(vs, hi - 1))

\* cv = population standard deviation / mean.  With S the sum of the n values,
\* variance = (sum over pairs of (x - y)^2) / n^2 and mean = S / n, so
\* cv > num / den  iff  den^2 * (sum over pairs of (x - y)^2) > num^2 * S^2
CvAbove(vs, num, den) ==
    Less(MulSmall(Mul(SumSeq(vs), SumSeq(vs)), num * num),
         MulSmall(PairSpread(vs, Len(vs)), den * den))

\* the risk rule as documented, in hundredths
RiskRule(vs) ==
    IF CvAbove(vs, 2, 1) THEN 85
    ELSE IF CvAbove(vs, 3, 2) THEN 90
    ELSE IF CvAbove(vs, 1, 1) THEN 95
    ELSE 100

\* C35: the risk multiplier is 0.85, 0.90, 0.95 or 1.0 as the coefficient of
\* variation of the remaining values is above 2, above 1.5, above 1 or not, and
\* 1.0 for a single value.
C35_RiskFollowsCv ==
    Asked =>
        /\ getRiskMultiplier(AskedValues) = RiskRule(AskedValues)
        /\ Len(AskedValues) = 1 => getRiskMultiplier(AskedValues) = 100

\* the Banker asked on the sixteen lowest values of the table, whose cv is 2.24
C35_Witness ==
    /\ Asked
    /\ Len(AskedValues) = 16
    /\ CvAbove(AskedValues, 2, 1)
    /\ getRiskMultiplier(AskedValues) = 85

\* the amount roundOffer was given in the call asked of the Banker, for draw k
\* of the random factor
AskedUnrounded(k) == jitteredOffer(flooredOffer(AskedValues, AskedRound, <<>>), randomFactor(k))

\* the granularity as documented, by the band of the amount
Granularity(x) ==
    CASE QLess(x, QInt(100))    -> 5
      [] QLess(x, QInt(1000))   -> 10
      [] QLess(x, QInt(10000))  -> 100
      [] QLess(x, QInt(100000)) -> 500
      [] QLess(x, QInt(500000)) -> 1000
      [] OTHER                  -> 5000

Twice(x) == Q(MulSmall(x.n, 2), x.ds)

\* r is a multiple of g at most g / 2 away from x
NearestMultiple(r, x, g) ==
    /\ r % g = 0
    /\ ~QLess(QInt(2 * r + g), Twice(x))
    /\ r = 0 \/ ~QLess(Twice(x), QInt(2 * r - g))

\* C36: roundOffer returns a multiple of the granularity of the amount's band (5
\* below 100, 10 below 1,000, 100 below 10,000, 500 below 100,000, 1,000 below
\* 500,000, else 5,000) that differs from the amount by at most half of it.
C36_RoundedToNearest ==
    Asked =>
        \A k \in 1..AskJitters :
            NearestMultiple(roundOffer(AskedUnrounded(k)), AskedUnrounded(k),
                            Granularity(AskedUnrounded(k)))

\* an amount between 100 and 1,000 that is not a multiple of 10 was rounded
C36_Witness ==
    /\ Asked
    /\ \E k \in 1..AskJitters :
          /\ Granularity(AskedUnrounded(k)) = 10
          /\ QInt(roundOffer(AskedUnrounded(k))) # AskedUnrounded(k)
          /\ QLess(QInt(roundOffer(AskedUnrounded(k))), AskedUnrounded(k))

\* the quotas of the six rounds of a session, and the sum of the first k
Quotas == <<6, 5, 5, 4, 2, 2>>

RECURSIVE QuotaSum(_)
QuotaSum(k) == IF k = 0 THEN 0 ELSE Quotas[k] + QuotaSum(k - 1)

\* the briefcases left when the offers of rounds 1..5 are made
UnopenedAtOffer == <<20, 15, 10, 6, 4>>

\* eliminations made on the Board that handleContinueGame has not counted yet
Uncounted == Cardinality({t \in Suspended : t.op \in {"eliminate", "timer", "continue"}})

\* the round being played is not complete yet: endRound has not run for it
RoundOpen ==
    /\ Phase \in {"Selecting", "Playing"}
    /\ ~\E t \in Suspended : t.op = "switchOffer"

CompletedRounds == IF RoundOpen THEN game.round - 1 ELSE game.round

\* C37: in a session played in turn the briefcases eliminated are those of the
\* completed rounds plus those counted (or about to be counted) in the current
\* round; an offer is on the table only at the end of a round, the k-th with
\* 20, 15, 10, 6, 4 briefcases left; and the switch is reached in round 6 after
\* five offers.
C37_OffersAtRoundBoundaries ==
    strays = 0 =>
        /\ game.round \in 1..6
        /\ Opened = QuotaSum(CompletedRounds) + game.eliminatedThisRound + Uncounted
        /\ (Phase = "Playing" /\ RoundOpen /\ Idle) => game.casesToEliminate = Quotas[game.round]
        /\ Phase = "OfferPresented" =>
              /\ game.round \in 1..5
              /\ game.eliminatedThisRound = 0
              /\ Len(banker.offers) = game.round
              /\ NumCases - Opened = UnopenedAtOffer[game.round]
        /\ (Phase \in {"SwitchDecision", "Concluded"} /\ outcome.kind # "deal") =>
              /\ game.round = 6
              /\ Len(banker.offers) = 5

\* the fifth offer of a session played in turn, with four briefcases left
C37_Witness ==
    /\ strays = 0
    /\ Phase = "OfferPresented"
    /\ game.round = 5
    /\ Len(banker.offers) = 5
    /\ NumCases - Opened = 4

\* C38: in a session played in turn, while a round is being played the briefcases
\* that can still be eliminated are at least one more than the round still asks
\* for, and once the player holds a briefcase the last other one is never
\* eliminated.
C38_QuotaFeasible ==
    strays = 0 =>
        /\ (Phase = "Playing" /\ RoundOpen) =>
              Cardinality(getAvailableCases)
                  >= game.casesToEliminate - (game.eliminatedThisRound + Uncounted) + 1
        /\ board.isSelected # {} => getAvailableCases # {}

\* a step in which one more briefcase is eliminated
OneMoreEliminated == Opened' = Opened + 1

\* a step of the continuation of an elimination, up to the end of
\* handleContinueGame
EliminationContinues ==
    \E t \in Suspended :
        \/ eliminateCaseResume(t) \/ continueTimer(t) \/ continueCount(t)
        \/ continueCheck(t) \/ continueFinish(t)

\* C39: an elimination changes the flag of the briefcase it is for and nothing
\* else: the player's briefcase, every value, every other briefcase, the round
\* and the quota stay as they are; the continuation of the elimination leaves
\* the Board, the round and the quota alone as well, also when it ends the round.
C39_EliminationFrame ==
    /\ [][OneMoreEliminated =>
            /\ \E n \in Cases \ board.isEliminated :
                  /\ board'.isEliminated = board.isEliminated \cup {n}
                  /\ board'.eliminatedCases = board.eliminatedCases \cup {n}
            /\ board'.isSelected = board.isSelected
            /\ board'.selectedCase = board.selectedCase
            /\ board'.value = board.value
            /\ board'.values = board.values
            /\ game' = game
            /\ banker' = banker]_vars
    /\ [][EliminationContinues =>
            /\ board' = board
            /\ game'.round = game.round
            /\ game'.casesToEliminate = game.casesToEliminate]_vars

\* the sixth briefcase of round 1 has just been eliminated: the round and the
\* quota are those of round 1 and the player's briefcase is the one selected
C39_Witness ==
    /\ strays = 0
    /\ Opened = 6
    /\ \E t \in Suspended : t.op = "eliminate" /\ t.c \in board.isEliminated
    /\ game.round = 1 /\ game.casesToEliminate = 6
    /\ board.isSelected = {board.selectedCase}

\* C40: in a session played in turn the indexes of the Board agree with the
\* flags of the briefcases: selectedCase is the one briefcase flagged as the
\* player's (none flagged while it is null), so getSelectedCaseValue is the value
\* of the player's briefcase, also after a switch; eliminatedCases holds exactly
\* the briefcases flagged eliminated; and the count of briefcases left plus the
\* count eliminated is 26.
C40_IndexesAgree ==
    strays = 0 =>
        /\ board.isSelected = IF board.selectedCase = 0 THEN {} ELSE {board.selectedCase}
        /\ board.isSelected # {} => getSelectedCaseValue = board.value[getChosenCase]
        /\ board.eliminatedCases = board.isEliminated
        /\ getRemainingCasesCount + Cardinality(board.eliminatedCases) = NumCases

=============================================================================
